---- MODULE Spec2Model ----
(***************************************************************************)
(* Model of the lcd-lcm1602-i2c driver: an HD44780 character LCD behind an *)
(* I2C 4-bit expander.  Three drivers are modelled:                        *)
(*   "legacy"  src/src/lib.rs        (Lcd over embedded_hal::blocking;     *)
(*             its set_cursor, a return-home followed by row*40+col cursor *)
(*             shifts, is left out)                                        *)
(*   "sync"    src/src/sync_lcd.rs   (blocking driver)                     *)
(*   "async"   src/src/async_lcd.rs  (suspending driver)                   *)
(* The state is the driver's struct fields, its lifecycle phase and the    *)
(* trace (bus writes and delays) of the most recent operation.             *)
(* A method is modelled by the fields it leaves and by its script: the bus *)
(* writes and delays it makes, in order, when no write fails.  Every bus   *)
(* write of the drivers is followed by `?`, so a call runs its script up   *)
(* to the first write that fails.  An operation is one action: the whole   *)
(* call, up to its return, its first failing bus write or its panic.       *)
(***************************************************************************)
EXTENDS Integers, Sequences, FiniteSets

VARIABLES lcd, phase, log, pre, op, res

vars == <<lcd, phase, log, pre, op, res>>

----------------------------------------------------------------------------
(* Bounds of the model.                                                    *)

\* longest string passed to write_str
MaxLen == 2
\* largest row passed to set_cursor (row 4 overflows row * 0x40 on u8)
MaxRow == 4
\* largest column passed to set_cursor in the cursor specification
MaxCol == 15

\* characters (Unicode scalar values) offered to write_str: 'A' and U+0141
Chars == {65, 321}
\* columns passed to set_cursor in the main specification
SampleCols == {0, 5}
\* row counts offered to the rows builder
RowCounts == {0, 2, 4}
\* bus addresses offered to the address builder
Addresses == {39}

----------------------------------------------------------------------------
(* Enumerations of the crate root.                                         *)

DisplayControl_Off == 0
DisplayControl_CursorBlink == 1
DisplayControl_CursorOn == 2
DisplayControl_DisplayOn == 4

Backlight_Off == 0
Backlight_On == 8

Mode_Cmd == 0
Mode_Data == 1
Mode_EntrySet == 4
Mode_DisplayControl == 8
Mode_FunctionSet == 32
Mode_DDRAMAddr == 128

Commands_Clear == 1
Commands_ReturnHome == 2
Commands_ShiftCursorLeft == 16
Commands_ShiftCursorRight == 20
Commands_ShiftDisplayLeft == 24
Commands_ShiftDisplayRight == 28

BitMode_Bit4 == 0
BitMode_Bit8 == 16

Font_Font5x8 == 0
Font_Font5x10 == 4

CursorMoveDir_Left == 2
DisplayShift_Decrement == 0

----------------------------------------------------------------------------
(* u8 arithmetic.                                                          *)

Pow2 == <<1, 2, 4, 8, 16, 32, 64, 128>>

\* bit i of x
Bit(x, i) == (x \div Pow2[i + 1]) % 2

\* a & b on u8, bit by bit from bit 0
And8(a, b) ==
  LET f[i \in 0..8] ==
        IF i = 8 THEN 0
        ELSE ((a \div Pow2[i + 1]) % 2) * ((b \div Pow2[i + 1]) % 2) * Pow2[i + 1]
             + f[i + 1]
  IN f[0]

\* a | b on u8
Or8(a, b) == a + b - And8(a, b)

\* a << 4 on u8: the bits shifted out are lost
Shl4(a) == (a * 16) % 256

\* `c as u8` on a char: the low eight bits of the scalar value
CharAsU8(c) == c % 256

\* a * k + c on u8: panics when overflow checks are on, wraps otherwise
MulAddOverflows(a, k, c) == a * k > 255 \/ ((a * k) % 256) + c > 255
MulAddU8(a, k, c) == (a * k + c) % 256

----------------------------------------------------------------------------
(* The bus and the delay source.                                           *)

Ev(t, v, m) == [t |-> t, v |-> v, m |-> m]

\* self.i2c.write(self.address, &[byte])?
I2cWrite(l, byte) == Ev("write", byte, l.address)

\* self.delay.delay_ms(n) / delay_us(n), recorded in microseconds
DelayUs(us) == Ev("delay", us, 0)
DelayMs(ms) == Ev("delay", ms * 1000, 0)

\* a plausible slip: the result of a failed write is dropped and the call goes on
Exec_noabort(script, failAt) ==
  LET writes == {i \in 1..Len(script) : script[i].t = "write"}
      nth(i) == Cardinality({j \in writes : j <= i})
  IN [log |-> [i \in 1..Len(script) |->
                 IF i \in writes /\ nth(i) = failAt
                 THEN [script[i] EXCEPT !.t = "fail"] ELSE script[i]],
      err |-> FALSE]

\* a plausible slip: a failed write is made again and the call goes on
Exec_retry(script, failAt) ==
  LET writes == {i \in 1..Len(script) : script[i].t = "write"}
      nth(i) == Cardinality({j \in writes : j <= i})
      at == {i \in writes : nth(i) = failAt}
  IN IF at = {} THEN [log |-> script, err |-> FALSE]
     ELSE LET k == CHOOSE i \in at : TRUE
          IN [log |-> Append(SubSeq(script, 1, k - 1), [script[k] EXCEPT !.t = "fail"])
                      \o SubSeq(script, k, Len(script)),
              err |-> FALSE]

\* The run of a script when the failAt-th bus write fails (0: none fails):
\* the `?` after the failing write returns the error, nothing after it runs.
Exec(script, failAt) ==
  LET writes == {i \in 1..Len(script) : script[i].t = "write"}
      nth(i) == Cardinality({j \in writes : j <= i})
      at == {i \in writes : nth(i) = failAt}
  IN IF at = {} THEN [log |-> script, err |-> FALSE]
     ELSE LET k == CHOOSE i \in at : TRUE
          IN [log |-> Append(SubSeq(script, 1, k - 1), [script[k] EXCEPT !.t = "fail"]),
              err |-> TRUE]

\* the number of bus writes of a script
NumWrites(script) == Cardinality({i \in 1..Len(script) : script[i].t = "write"})

\* what a method does: the fields it leaves, its script, whether it panics
Ret(l, script) == [lcd |-> l, script |-> script, panic |-> FALSE]
Panic(l, script) == [lcd |-> l, script |-> script, panic |-> TRUE]

----------------------------------------------------------------------------
(* NibbleFramer: write4bits, send, command.  A script also records the     *)
(* entry of each nibble transfer ("nib", m = 1 inside a byte transfer) and *)
(* of each byte transfer ("send"); these emit nothing on the bus.          *)

\* a plausible slip: the frame that lowers enable leaves the backlight out
write4bits_modern_dark(l, data) ==
  <<Ev("nib", data, 0),
    I2cWrite(l, Or8(Or8(data, DisplayControl_Off), l.backlight_state)),
    I2cWrite(l, Or8(Or8(data, DisplayControl_DisplayOn), l.backlight_state)),
    I2cWrite(l, DisplayControl_Off),
    DelayUs(700)>>

write4bits_modern(l, data) ==
  <<Ev("nib", data, 0),
    I2cWrite(l, Or8(Or8(data, DisplayControl_Off), l.backlight_state)),
    I2cWrite(l, Or8(Or8(data, DisplayControl_DisplayOn), l.backlight_state)),
    I2cWrite(l, Or8(DisplayControl_Off, l.backlight_state)),
    DelayUs(700)>>

write4bits_legacy(l, data) ==
  <<Ev("nib", data, 0),
    I2cWrite(l, Or8(Or8(data, DisplayControl_DisplayOn), l.backlight_state)),
    DelayMs(1),
    I2cWrite(l, Or8(DisplayControl_Off, l.backlight_state)),
    DelayMs(5)>>

write4bits(l, data) ==
  IF l.variant = "legacy" THEN write4bits_legacy(l, data)
  ELSE write4bits_modern(l, data)

\* the nibble transfers of a script, marked as halves of a byte transfer
InSend(script) ==
  [i \in 1..Len(script) |->
     IF script[i].t = "nib" THEN [script[i] EXCEPT !.m = 1] ELSE script[i]]

\* a plausible slip: the low nibble is sent first
send_lowfirst(l, data, mode) ==
  <<Ev("send", data, mode)>>
  \o InSend(write4bits(l, Or8(And8(Shl4(data), 240), mode)))
  \o InSend(write4bits(l, Or8(And8(data, 240), mode)))

\* high_bits = data & 0xf0, low_bits = (data << 4) & 0xf0
send(l, data, mode) ==
  <<Ev("send", data, mode)>>
  \o InSend(write4bits(l, Or8(And8(data, 240), mode)))
  \o InSend(write4bits(l, Or8(And8(Shl4(data), 240), mode)))

command(l, data) == send(l, data, Mode_Cmd)

----------------------------------------------------------------------------
(* DisplayDriver operations.                                               *)

\* a plausible slip: the frame is built from the state as it was before the call
backlight_stale(l, b) ==
  Ret([l EXCEPT !.backlight_state = b],
      IF l.variant = "legacy"
      THEN <<I2cWrite(l, Or8(DisplayControl_DisplayOn, l.backlight_state))>>
      ELSE <<I2cWrite(l, Or8(DisplayControl_Off, l.backlight_state))>>)

backlight(l, b) ==
  Ret([l EXCEPT !.backlight_state = b],
      IF l.variant = "legacy"
      THEN <<I2cWrite(l, Or8(DisplayControl_DisplayOn, b))>>
      ELSE <<I2cWrite(l, Or8(DisplayControl_Off, b))>>)

\* a plausible slip: the characters are sent as commands
RECURSIVE write_chars_cmd(_, _)
write_chars_cmd(l, data) ==
  IF data = <<>> THEN <<>>
  ELSE send(l, CharAsU8(Head(data)), Mode_Cmd) \o write_chars_cmd(l, Tail(data))

\* for c in data.chars() { self.send(c as u8, Mode::Data)?; }
RECURSIVE write_chars(_, _)
write_chars(l, data) ==
  IF data = <<>> THEN <<>>
  ELSE send(l, CharAsU8(Head(data)), Mode_Data) \o write_chars(l, Tail(data))

write_str(l, data) == Ret(l, write_chars(l, data))

\* a plausible slip: the delay after the clear instruction is forgotten
clear_nodelay(l) == Ret(l, command(l, Commands_Clear))

\* a plausible slip: clearing the display also puts the cursor flags back
clear_resets_cursor(l) ==
  Ret([l EXCEPT !.cursor_on = FALSE, !.cursor_blink = FALSE],
      command(l, Commands_Clear) \o <<DelayMs(2)>>)

clear(l) == Ret(l, command(l, Commands_Clear) \o <<DelayMs(2)>>)

\* a plausible slip: the delay after return-home is forgotten
return_home_nodelay(l) == Ret(l, command(l, Commands_ReturnHome))

return_home(l) == Ret(l, command(l, Commands_ReturnHome) \o <<DelayMs(2)>>)

\* a plausible slip: the row stride of the cursor-shift variant (40) is kept
set_cursor_stride40(l, row, col, chk) ==
  IF MulAddOverflows(row, 40, col) /\ chk THEN Panic(l, <<>>)
  ELSE Ret(l, command(l, Or8(Mode_DDRAMAddr, MulAddU8(row, 40, col))))

\* chk: the build has overflow checks on (row * 0x40 + col panics on overflow)
set_cursor(l, row, col, chk) ==
  IF MulAddOverflows(row, 64, col) /\ chk THEN Panic(l, <<>>)
  ELSE Ret(l, command(l, Or8(Mode_DDRAMAddr, MulAddU8(row, 64, col))))

\* a plausible slip: the blink branch starts again from display-on alone
display_ctrl_shadowed(l) ==
  IF l.cursor_blink
  THEN Or8(DisplayControl_DisplayOn, DisplayControl_CursorBlink)
  ELSE IF l.cursor_on
       THEN Or8(DisplayControl_DisplayOn, DisplayControl_CursorOn)
       ELSE DisplayControl_DisplayOn

display_ctrl(l) ==
  Or8(IF l.cursor_on
      THEN Or8(DisplayControl_DisplayOn, DisplayControl_CursorOn)
      ELSE DisplayControl_DisplayOn,
      IF l.cursor_blink THEN DisplayControl_CursorBlink ELSE 0)

\* a plausible slip: the control byte goes out as one nibble transfer
update_display_control_nibble(l) ==
  write4bits(l, Or8(Mode_DisplayControl, display_ctrl(l)))

update_display_control(l) ==
  command(l, Or8(Mode_DisplayControl, display_ctrl(l)))

WithBlink(l, blink) == [l EXCEPT !.cursor_blink = blink]
WithCursor(l, on) == [l EXCEPT !.cursor_on = on]
WithFont(l, mode) == [l EXCEPT !.font_mode = mode]

cursor_blink(l, blink) ==
  Ret(WithBlink(l, blink), update_display_control(WithBlink(l, blink)))

cursor_on(l, on) ==
  Ret(WithCursor(l, on), update_display_control(WithCursor(l, on)))

\* a plausible slip: the font is left out of the function-set byte
update_function_set_nofont(l) ==
  command(l, Or8(Mode_FunctionSet, IF l.rows = 0 THEN 0 ELSE 8))

update_function_set(l) ==
  command(l, Or8(Or8(Mode_FunctionSet, l.font_mode), IF l.rows = 0 THEN 0 ELSE 8))

font_mode(l, mode) ==
  Ret(WithFont(l, mode), update_function_set(WithFont(l, mode)))

scroll_display_left(l) == Ret(l, command(l, Commands_ShiftDisplayLeft))
scroll_display_right(l) == Ret(l, command(l, Commands_ShiftDisplayRight))
scroll_cursor_left(l) == Ret(l, command(l, Commands_ShiftCursorLeft))
\* a plausible slip: the body of scroll_cursor_left pasted and left as it was
scroll_cursor_right_pasted(l) == Ret(l, command(l, Commands_ShiftCursorLeft))

scroll_cursor_right(l) == Ret(l, command(l, Commands_ShiftCursorRight))

----------------------------------------------------------------------------
(* InitSequencer.                                                          *)

\* a plausible slip: the forced writes carry the 4-bit flag
mode_8bit_wrongflag == Or8(Mode_FunctionSet, BitMode_Bit4)

mode_8bit == Or8(Mode_FunctionSet, BitMode_Bit8)
mode_4bit == Or8(Mode_FunctionSet, BitMode_Bit4)

\* a plausible slip: no delay between the third forced write and the switch
handshake_short(l) ==
  write4bits(l, mode_8bit) \o <<DelayMs(5)>>
  \o write4bits(l, mode_8bit) \o <<DelayMs(5)>>
  \o write4bits(l, mode_8bit)
  \o write4bits(l, mode_4bit)

\* the three forced 8-bit-mode writes and the switch to 4-bit mode
handshake(l) ==
  write4bits(l, mode_8bit) \o <<DelayMs(5)>>
  \o write4bits(l, mode_8bit) \o <<DelayMs(5)>>
  \o write4bits(l, mode_8bit) \o <<DelayMs(5)>>
  \o write4bits(l, mode_4bit)

\* from the function-set byte to the return-home of the sync and async drivers
configure(l) ==
  update_function_set(l)
  \o update_display_control(l)
  \o command(l, Or8(Mode_Cmd, Commands_Clear))
  \o <<DelayMs(2)>>
  \o command(l, Or8(Or8(Mode_EntrySet, CursorMoveDir_Left), DisplayShift_Decrement))
  \o return_home(l).script

init_sync(l) ==
  Ret(l, <<DelayMs(80)>> \o backlight(l, l.backlight_state).script \o <<DelayMs(1)>>
         \o handshake(l) \o configure(l))

init_async(l) ==
  Ret(l, <<DelayMs(80)>> \o backlight(l, l.backlight_state).script
         \o handshake(l) \o configure(l))

init_legacy(l) ==
  Ret(l, <<DelayMs(80)>>
         \o handshake(l)
         \o command(l, Or8(Mode_FunctionSet, IF l.rows = 0 THEN 0 ELSE 8))
         \o command(l, Or8(Mode_DisplayControl, display_ctrl(l)))
         \o command(l, Or8(Mode_Cmd, Commands_Clear))
         \o command(l, 4)
         \o backlight(l, l.backlight_state).script)

init(l) ==
  CASE l.variant = "legacy" -> init_legacy(l)
    [] l.variant = "sync" -> init_sync(l)
    [] l.variant = "async" -> init_async(l)

----------------------------------------------------------------------------
(* The state machine.                                                      *)

Variants == {"legacy", "sync", "async"}

\* Lcd::new
new(v) ==
  [variant |-> v, address |-> 0, rows |-> 0, backlight_state |-> Backlight_On,
   cursor_on |-> FALSE, cursor_blink |-> FALSE, font_mode |-> Font_Font5x8]

\* a call: the operation, its arguments, the bus write that fails (0: none)
\* and whether an arithmetic overflow panics
Call(name, a, b, s, failAt, chk) ==
  [name |-> name, a |-> a, b |-> b, s |-> s, failAt |-> failAt, chk |-> chk]

B2N(b) == IF b THEN 1 ELSE 0

\* the method that the call o names, applied to the driver l
Run(l, o) ==
  CASE o.name = "init" -> init(l)
    [] o.name = "write_str" -> write_str(l, o.s)
    [] o.name = "clear" -> clear(l)
    [] o.name = "return_home" -> return_home(l)
    [] o.name = "set_cursor" -> set_cursor(l, o.a, o.b, o.chk)
    [] o.name = "backlight" -> backlight(l, o.a)
    [] o.name = "cursor_on" -> cursor_on(l, o.a = 1)
    [] o.name = "cursor_blink" -> cursor_blink(l, o.a = 1)
    [] o.name = "font_mode" -> font_mode(l, o.a)
    [] o.name = "scroll_display_left" -> scroll_display_left(l)
    [] o.name = "scroll_display_right" -> scroll_display_right(l)
    [] o.name = "scroll_cursor_left" -> scroll_cursor_left(l)
    [] o.name = "scroll_cursor_right" -> scroll_cursor_right(l)
    [] o.name = "send" -> Ret(l, send(l, o.a, o.b))

Outcome(r, x) == IF r.panic THEN "panic" ELSE IF x.err THEN "err" ELSE "ok"

\* a plausible slip: the fields are put back when the bus write fails
Do_rollback(r, name, a, b, s, chk) ==
  /\ log = <<>>
  /\ chk => r.panic
  /\ \E f \in 0..NumWrites(r.script) :
       \E x \in {Exec(r.script, f)} :
          /\ lcd' = IF x.err THEN lcd ELSE r.lcd
          /\ log' = x.log
          /\ pre' = lcd
          /\ op' = Call(name, a, b, s, f, chk)
          /\ res' = Outcome(r, x)
          /\ phase' = IF r.panic THEN "Dropped"
                      ELSE IF name = "init" THEN (IF x.err THEN "Dropped" ELSE "Ready")
                      ELSE phase

\* One call, r being what the method does on the driver as it is, with the
\* bus failing at any one of the call's writes or at none.  The trace of the
\* previous call has been collected.  The overflow mode is kept only when it
\* takes effect.
Do(r, name, a, b, s, chk) ==
  /\ log = <<>>
  /\ chk => r.panic
  /\ \E f \in 0..NumWrites(r.script) :
       \E x \in {Exec(r.script, f)} :
          /\ lcd' = r.lcd
          /\ log' = x.log
          /\ pre' = lcd
          /\ op' = Call(name, a, b, s, f, chk)
          /\ res' = Outcome(r, x)
          /\ phase' = IF r.panic THEN "Dropped"
                      ELSE IF name = "init" THEN (IF x.err THEN "Dropped" ELSE "Ready")
                      ELSE phase

Init ==
  /\ \E v \in Variants : lcd = new(v)
  /\ phase = "New"
  /\ log = <<>>
  /\ pre = lcd
  /\ op = Call("none", 0, 0, <<>>, 0, FALSE)
  /\ res = "ok"

\* builders: rows / with_rows, address / with_address, cursor_on /
\* with_cursor_on, with_cursor_blink
Build(l) ==
  /\ phase = "New"
  /\ lcd' = l
  /\ UNCHANGED <<phase, log, pre, op, res>>

WithRows == \E r \in RowCounts : Build([lcd EXCEPT !.rows = r])
WithAddress == \E a \in Addresses : Build([lcd EXCEPT !.address = a])
WithCursorOn == \E b \in BOOLEAN : Build([lcd EXCEPT !.cursor_on = b])
WithCursorBlink ==
  /\ lcd.variant # "legacy"
  /\ \E b \in BOOLEAN : Build([lcd EXCEPT !.cursor_blink = b])

Modern == lcd.variant # "legacy"

Strings == UNION {[1..n -> Chars] : n \in 0..MaxLen}

DoInit ==
  /\ phase \in {"New", "Ready"}
  /\ Do(init(lcd), "init", 0, 0, <<>>, FALSE)

DoWriteStr ==
  /\ phase = "Ready"
  /\ \E s \in Strings : Do(write_str(lcd, s), "write_str", 0, 0, s, FALSE)

DoClear ==
  /\ phase = "Ready"
  /\ Do(clear(lcd), "clear", 0, 0, <<>>, FALSE)

DoReturnHome ==
  /\ phase = "Ready"
  /\ Do(return_home(lcd), "return_home", 0, 0, <<>>, FALSE)

DoSetCursor ==
  /\ phase = "Ready" /\ Modern
  /\ \E row \in 0..MaxRow, col \in SampleCols, chk \in BOOLEAN :
        Do(set_cursor(lcd, row, col, chk), "set_cursor", row, col, <<>>, chk)

DoBacklight ==
  /\ phase = "Ready"
  /\ \E b \in {Backlight_Off, Backlight_On} :
        Do(backlight(lcd, b), "backlight", b, 0, <<>>, FALSE)

DoCursorOn ==
  /\ phase = "Ready" /\ Modern
  /\ \E b \in BOOLEAN : Do(cursor_on(lcd, b), "cursor_on", B2N(b), 0, <<>>, FALSE)

DoCursorBlink ==
  /\ phase = "Ready" /\ Modern
  /\ \E b \in BOOLEAN : Do(cursor_blink(lcd, b), "cursor_blink", B2N(b), 0, <<>>, FALSE)

DoFontMode ==
  /\ phase = "Ready" /\ Modern
  /\ \E m \in {Font_Font5x8, Font_Font5x10} :
        Do(font_mode(lcd, m), "font_mode", m, 0, <<>>, FALSE)

DoScrollDisplayLeft ==
  /\ phase = "Ready" /\ Modern
  /\ Do(scroll_display_left(lcd), "scroll_display_left", 0, 0, <<>>, FALSE)

DoScrollDisplayRight ==
  /\ phase = "Ready" /\ Modern
  /\ Do(scroll_display_right(lcd), "scroll_display_right", 0, 0, <<>>, FALSE)

DoScrollCursorLeft ==
  /\ phase = "Ready" /\ Modern
  /\ Do(scroll_cursor_left(lcd), "scroll_cursor_left", 0, 0, <<>>, FALSE)

DoScrollCursorRight ==
  /\ phase = "Ready" /\ Modern
  /\ Do(scroll_cursor_right(lcd), "scroll_cursor_right", 0, 0, <<>>, FALSE)

\* the caller takes the result of the call; the recording of the bus and of
\* the delay source starts afresh for the next call
Collect ==
  /\ log # <<>>
  /\ log' = <<>>
  /\ pre' = lcd
  /\ op' = Call("none", 0, 0, <<>>, 0, FALSE)
  /\ res' = "ok"
  /\ UNCHANGED <<lcd, phase>>

Next ==
  \/ WithRows
  \/ WithAddress
  \/ WithCursorOn
  \/ WithCursorBlink
  \/ DoInit
  \/ DoWriteStr
  \/ DoClear
  \/ DoReturnHome
  \/ DoSetCursor
  \/ DoBacklight
  \/ DoCursorOn
  \/ DoCursorBlink
  \/ DoFontMode
  \/ DoScrollDisplayLeft
  \/ DoScrollDisplayRight
  \/ DoScrollCursorLeft
  \/ DoScrollCursorRight
  \/ Collect

Spec == Init /\ [][Next]_vars

----------------------------------------------------------------------------
(* The cursor specification: set_cursor over the whole grid of positions.  *)

DoSetCursorAll ==
  /\ phase = "Ready" /\ Modern
  /\ \E row \in 0..MaxRow, col \in 0..MaxCol, chk \in BOOLEAN :
        Do(set_cursor(lcd, row, col, chk), "set_cursor", row, col, <<>>, chk)

NextCursor ==
  \/ WithRows
  \/ DoInit
  \/ DoSetCursorAll
  \/ Collect

SpecCursor == Init /\ [][NextCursor]_vars

----------------------------------------------------------------------------
(* The framer specification: send applied to every byte and both modes.    *)

DoSend ==
  \E data \in 0..255, mode \in {Mode_Cmd, Mode_Data} :
     Do(Ret(lcd, send(lcd, data, mode)), "send", data, mode, <<>>, FALSE)

NextSend ==
  \/ DoSend
  \/ Collect

SpecSend == Init /\ [][NextSend]_vars

----------------------------------------------------------------------------
(* The clear specification: clear() called again on the driver as the      *)
(* first clear() left it, with nothing in between.  The recording is not   *)
(* collected between the two calls: the trace of the second call follows   *)
(* that of the first after a "call" mark, pre stays the state before the   *)
(* first call and op.a counts the clears that came before.                 *)

DoClearAgain ==
  /\ phase = "Ready"
  /\ op.name = "clear" /\ op.a = 0 /\ res = "ok"
  /\ \E r \in {clear(lcd)} :
       \E f \in 0..NumWrites(r.script) :
          \E x \in {Exec(r.script, f)} :
             /\ lcd' = r.lcd
             /\ log' = log \o <<Ev("call", 0, 0)>> \o x.log
             /\ op' = Call("clear", 1, 0, <<>>, f, FALSE)
             /\ res' = Outcome(r, x)
             /\ UNCHANGED <<phase, pre>>

NextClear ==
  \/ WithRows
  \/ WithCursorOn
  \/ WithCursorBlink
  \/ DoInit
  \/ DoBacklight
  \/ DoCursorOn
  \/ DoClear
  \/ DoClearAgain
  \/ Collect

SpecClear == Init /\ [][NextClear]_vars

----------------------------------------------------------------------------
(* Reading a trace.                                                        *)

IsWrite(e) == e.t = "write"
IsAttempt(e) == e.t \in {"write", "fail"}
IsBus(e) == e.t \in {"write", "fail", "delay"}
IsSend(e) == e.t = "send"
IsNibble(e) == e.t = "nib"
\* a nibble transfer that is not half of a byte transfer
IsSingleNibble(e) == e.t = "nib" /\ e.m = 0
IsXfer(e) == IsSend(e) \/ IsSingleNibble(e)
\* the frame that latches a nibble: a successful write with enable (bit 2) high
IsStrobe(e) == e.t = "write" /\ Bit(e.v, 2) = 1

Attempts(l) == SelectSeq(l, IsAttempt)
BusTrace(l) == SelectSeq(l, IsBus)
Sends(l) == SelectSeq(l, IsSend)
Nibbles(l) == SelectSeq(l, IsNibble)
SingleNibbles(l) == SelectSeq(l, IsSingleNibble)
Xfers(l) == SelectSeq(l, IsXfer)
Strobes(l) == SelectSeq(l, IsStrobe)

\* the data nibble (top four bits) of a frame
DataNibble(e) == e.v \div 16

\* the last event of the transfer that starts at position p of l
EndOfXfer(l, p) ==
  LET later == {q \in (p + 1)..Len(l) : IsXfer(l[q])}
  IN IF later = {} THEN Len(l)
     ELSE (CHOOSE q \in later : \A q2 \in later : q <= q2) - 1

IsDelay(e) == e.t = "delay"
Delays(l) == SelectSeq(l, IsDelay)

\* the position of the n-th single nibble transfer of l
NthSingle(l, n) ==
  CHOOSE p \in 1..Len(l) :
     IsSingleNibble(l[p]) /\ Cardinality({q \in 1..p : IsSingleNibble(l[q])}) = n

\* the n-th single nibble transfer of l and what follows it up to the next one
Between(l, n) == SubSeq(l, NthSingle(l, n), NthSingle(l, n + 1) - 1)

\* the events of l after its last bus write
AfterLastWrite(l) ==
  LET ws == {i \in 1..Len(l) : IsAttempt(l[i])}
  IN IF ws = {} THEN l
     ELSE SubSeq(l, (CHOOSE i \in ws : \A j \in ws : j <= i) + 1, Len(l))

\* the sum of the delays of l, in microseconds
RECURSIVE TotalDelay(_)
TotalDelay(l) ==
  IF l = <<>> THEN 0
  ELSE (IF IsDelay(Head(l)) THEN Head(l).v ELSE 0) + TotalDelay(Tail(l))

\* the delay made between the last bus write of the transfer that starts at
\* position p of l and the next bus write of l (or the end of l)
DelayAfterXfer(l, p) ==
  LET e == EndOfXfer(l, p)
      ws == {i \in p..e : IsAttempt(l[i])}
      lastw == CHOOSE i \in ws : \A j \in ws : j <= i
      next == {i \in (e + 1)..Len(l) : IsAttempt(l[i])}
      upto == IF next = {} THEN Len(l)
              ELSE (CHOOSE i \in next : \A j \in next : i <= j) - 1
  IN TotalDelay(SubSeq(l, lastw + 1, upto))

TypeOK ==
  /\ lcd.variant \in Variants
  /\ lcd.rows \in RowCounts \cup {0}
  /\ phase \in {"New", "Ready", "Dropped"}
  /\ res \in {"ok", "err", "panic"}

----------------------------------------------------------------------------
(* Claims.                                                                 *)

\* C1: a successful init() issues the function-set instruction with the
\* 8-bit-mode flag exactly three times, each as a single nibble transfer, all
\* before the function-set instruction with the 4-bit-mode flag, which is
\* issued exactly once as a single nibble transfer; in every configuration.
C1_HandshakeThreeThenOne ==
  (op.name = "init" /\ res = "ok") =>
    LET xf == Xfers(log)
        st == Strobes(log)
    IN /\ SingleNibbles(log) =
            <<Ev("nib", 48, 0), Ev("nib", 48, 0), Ev("nib", 48, 0), Ev("nib", 32, 0)>>
       /\ SubSeq(xf, 1, 4) = SingleNibbles(log)
       /\ \A i \in 1..Len(xf) : IsSend(xf[i]) => xf[i].v \notin 48..63
       /\ {i \in 1..Len(st) : DataNibble(st[i]) = 3} = {1, 2, 3}
       /\ DataNibble(st[4]) = 2

C1_Witness ==
  /\ op.name = "init" /\ res = "ok"
  /\ lcd.rows = 2 /\ lcd.cursor_on /\ lcd.address = 39
  /\ Len(SingleNibbles(log)) = 4

\* C2: when a bus write fails during init(), in particular a write of the
\* second forced 8-bit-mode nibble transfer, init() returns the error at
\* once: the failing write is the last thing it does, no further bus write is
\* attempted, and no initialized driver is returned.
C2_InitFailureAborts ==
  (op.name = "init" /\ op.failAt > 0) =>
    /\ res = "err"
    /\ phase # "Ready"
    /\ log[Len(log)].t = "fail"
    /\ Len(Attempts(log)) = op.failAt
    /\ \A i \in 1..(Len(log) - 1) : log[i].t # "fail"

C2_Witness ==
  /\ op.name = "init" /\ res = "err" /\ phase = "Dropped"
  /\ Len(SingleNibbles(log)) = 2
  /\ log[Len(log)].t = "fail"

\* C3: a successful init() of the sync and async drivers starts with the 80 ms
\* power-on wait, before any bus write, then makes its transfers in this
\* order: three 8-bit-mode nibble transfers, one 4-bit-mode nibble transfer,
\* the function-set byte, the display-control byte, clear, entry-mode-set,
\* (a command of the HD44780 class 000001xx), return-home; clear and
\* return-home are each followed by the 2 ms delay, and every transfer after
\* the 4-bit switch is a two-nibble byte transfer.
\* (The one frame that asserts the backlight, between the power-on wait and
\* the handshake, is a plain bus write and no transfer.)
C3_InitOrder ==
  (op.name = "init" /\ res = "ok" /\ lcd.variant \in {"sync", "async"}) =>
    /\ log[1] = Ev("delay", 80000, 0)
    /\ Xfers(log) =
         <<Ev("nib", 48, 0), Ev("nib", 48, 0), Ev("nib", 48, 0), Ev("nib", 32, 0),
           Ev("send", 32 + lcd.font_mode + (IF lcd.rows = 0 THEN 0 ELSE 8), 0),
           Ev("send", 8 + 4 + 2 * B2N(lcd.cursor_on) + B2N(lcd.cursor_blink), 0),
           Ev("send", Commands_Clear, 0), Xfers(log)[8],
           Ev("send", Commands_ReturnHome, 0)>>
    /\ IsSend(Xfers(log)[8]) /\ Xfers(log)[8].m = Mode_Cmd
    /\ Xfers(log)[8].v \in 4..7
    /\ \A p \in 1..Len(log) :
         (IsSend(log[p]) /\ log[p].v \in {1, 2}) =>
            log[EndOfXfer(log, p)] = Ev("delay", 2000, 0)
    /\ \A p \in 1..Len(log) :
         IsSend(log[p]) =>
            /\ EndOfXfer(log, p) >= p + 2
            /\ Len(Nibbles(SubSeq(log, p, EndOfXfer(log, p)))) = 2
            /\ Len(Strobes(SubSeq(log, p, EndOfXfer(log, p)))) = 2

C3_Witness ==
  /\ op.name = "init" /\ res = "ok" /\ lcd.variant = "sync"
  /\ lcd.rows = 4 /\ lcd.cursor_blink
  /\ Len(Sends(log)) = 5
  /\ log[Len(log)] = Ev("delay", 2000, 0)

\* C4: for every byte b and either register-select value, send(b, rs) makes
\* exactly two nibble transfers, the high nibble first, and the data nibbles
\* of the two latched frames, put together as (high << 4) | low, are b.
C4_SendReassembles ==
  (op.name = "send" /\ res = "ok") =>
    LET st == Strobes(log) IN
    /\ Len(Nibbles(log)) = 2
    /\ Len(st) = 2
    /\ DataNibble(st[1]) = op.a \div 16
    /\ DataNibble(st[2]) = op.a % 16
    /\ DataNibble(st[1]) * 16 + DataNibble(st[2]) = op.a
    /\ \A i \in 1..2 : Bit(st[i].v, 0) = op.b

C4_Witness ==
  /\ op.name = "send" /\ res = "ok"
  /\ op.a = 165 /\ op.b = 1
  /\ Len(Strobes(log)) = 2

\* C5: cursor_on(b), cursor_blink(b) and font_mode(f) each start exactly one
\* byte transfer, a command (register-select 0), and none of the single
\* nibble transfers of the handshake; when the bus does not fail that is two
\* nibble transfers, both latched with register-select 0.
C5_OneControlByte ==
  (op.name \in {"cursor_on", "cursor_blink", "font_mode"}) =>
    /\ SingleNibbles(log) = <<>>
    /\ Len(Sends(log)) = 1
    /\ Sends(log)[1].m = Mode_Cmd
    /\ log[1] = Sends(log)[1]
    /\ res = "ok" =>
         /\ Len(Nibbles(log)) = 2
         /\ Len(Strobes(log)) = 2
         /\ \A i \in 1..2 : Bit(Strobes(log)[i].v, 0) = 0
         /\ Strobes(log)[1].v \div 16 = Sends(log)[1].v \div 16
         /\ Strobes(log)[2].v \div 16 = Sends(log)[1].v % 16

C5_Witness ==
  /\ op.name = "cursor_blink" /\ op.a = 1 /\ res = "ok"
  /\ Len(Strobes(log)) = 2
  /\ Sends(log)[1].v = 13

\* C6: on the 2x16 geometry, for every row in {0, 1} and column in 0..15,
\* set_cursor(row, col) sends exactly one command byte, 0x80 | (row * 0x40 +
\* col): bit 7 is set and bits 6-0 are the DDRAM address; set_cursor(1, 5)
\* sends 0xC5.
C6_SetCursorByte ==
  (op.name = "set_cursor" /\ res = "ok" /\ op.a \in {0, 1} /\ op.b \in 0..15) =>
    LET st == Strobes(log)
        byte == DataNibble(st[1]) * 16 + DataNibble(st[2])
    IN /\ Xfers(log) = <<Ev("send", 128 + op.a * 64 + op.b, Mode_Cmd)>>
       /\ Len(st) = 2
       /\ byte = 128 + op.a * 64 + op.b
       /\ Bit(byte, 7) = 1
       /\ byte % 128 = op.a * 64 + op.b
       /\ \A i \in 1..2 : Bit(st[i].v, 0) = 0
       /\ (op.a = 1 /\ op.b = 5) => byte = 197

C6_Witness ==
  /\ op.name = "set_cursor" /\ res = "ok"
  /\ op.a = 1 /\ op.b = 5 /\ pre.rows = 2
  /\ Sends(log) = <<Ev("send", 197, 0)>>

\* C7: for every row r of a 4-row geometry, set_cursor(r, 0) resolves to the
\* entry for r of the geometry's offset table as the 7-bit DDRAM address: row
\* 2 is 0x10 on the 16x4 geometry and 0x14 on the others (rows 0 and 1 are
\* 0x00 and 0x40 in both tables).
C7_RowOffsetTable ==
  LET Offsets16x4 == <<0, 64, 16>>
      OffsetsOther == <<0, 64, 20>>
  IN (op.name = "set_cursor" /\ res = "ok" /\ pre.rows = 4
      /\ op.a \in 0..2 /\ op.b = 0) =>
       Sends(log)[1].v % 128 \in {Offsets16x4[op.a + 1], OffsetsOther[op.a + 1]}

\* C8: every function-set byte the driver sends, in init and in font_mode,
\* has the multi-line bit 0x08 set exactly when the row count is greater
\* than 0, the bus-width bit 0x10 clear, and the font bit 0x04 of the
\* selected font.
C8_FunctionSetByte ==
  \A i \in 1..Len(log) :
     (IsSend(log[i]) /\ log[i].m = Mode_Cmd /\ log[i].v \in 32..63) =>
        /\ op.name \in {"init", "font_mode"}
        /\ Bit(log[i].v, 3) = 1 <=> lcd.rows > 0
        /\ Bit(log[i].v, 4) = 0
        /\ 4 * Bit(log[i].v, 2) = lcd.font_mode
        /\ log[i].v % 4 = 0

C8_Witness ==
  /\ op.name = "font_mode" /\ res = "ok"
  /\ lcd.rows = 2 /\ lcd.font_mode = Font_Font5x10
  /\ Sends(log) = <<Ev("send", 44, 0)>>

\* C9: for every configuration and every operation, the sync driver and the
\* async driver, started from the same soft state with the same call, emit
\* the same sequence of bus frames and delays.
C9_SyncAsyncSameTrace ==
  (lcd.variant = "sync" /\ op.name # "none") =>
    BusTrace(log) = BusTrace(Exec(Run([pre EXCEPT !.variant = "async"], op).script, op.failAt).log)

C11_BacklightOneFrame ==
  (op.name = "backlight") =>
    /\ Len(log) = 1
    /\ IsAttempt(log[1])
    /\ \A i \in 1..Len(log) : log[i].t # "delay"
    /\ Bit(log[1].v, 3) * 8 = op.a
    /\ log[1].m = lcd.address
    /\ lcd.backlight_state = op.a
    /\ lcd = [pre EXCEPT !.backlight_state = op.a]

C11_Witness ==
  /\ op.name = "backlight" /\ res = "ok"
  /\ op.a = Backlight_Off /\ pre.backlight_state = Backlight_On
  /\ Len(Attempts(log)) = 1

\* the position of the mark between the two calls of a doubled trace
CallMark(l) == CHOOSE i \in 1..Len(l) : l[i].t = "call"

\* C12: when clear() is called twice in a row and the bus does not fail, the
\* second call emits the same bus frames and the same delays as the first
\* (the clear instruction byte 0x01 as a command, then the 2 ms delay), and
\* the soft state after the two calls is what it was before them.
C12_ClearTwiceSame ==
  (op.name = "clear" /\ op.a = 1 /\ res = "ok") =>
    LET first == SubSeq(log, 1, CallMark(log) - 1)
        second == SubSeq(log, CallMark(log) + 1, Len(log))
    IN /\ BusTrace(first) = BusTrace(second)
       /\ first = second
       /\ Sends(first) = <<Ev("send", Commands_Clear, Mode_Cmd)>>
       /\ first[Len(first)] = Ev("delay", 2000, 0)
       /\ Len(Attempts(first)) = NumWrites(first)
       /\ lcd = pre

C12_Witness ==
  /\ op.name = "clear" /\ op.a = 1 /\ res = "ok"
  /\ lcd.variant = "sync" /\ lcd.cursor_on /\ lcd.backlight_state = Backlight_Off
  /\ Len(Sends(log)) = 2

\* C13 as stated: in the sync and async drivers every nibble transfer is
\* exactly three bus frames: (a) the nibble bits, register-select and
\* backlight with enable (bit 2) low, (b) the same with enable high, (c) the
\* same nibble bits, register-select and backlight with enable low again; a
\* byte transfer is exactly six frames.
C13_ThreeFramesSameNibble ==
  (op.name # "none" /\ res = "ok" /\ lcd.variant # "legacy") =>
    /\ \A p \in 1..Len(log) :
         IsNibble(log[p]) =>
            /\ p + 3 <= Len(log)
            /\ \A k \in 1..3 : log[p + k].t = "write"
            /\ (p + 4 <= Len(log)) => ~IsAttempt(log[p + 4])
            /\ log[p + 1].v = Or8(log[p].v, lcd.backlight_state)
            /\ Bit(log[p + 1].v, 2) = 0
            /\ log[p + 2].v = log[p + 1].v + 4
            /\ log[p + 3].v = log[p + 1].v
    /\ \A p \in 1..Len(log) :
         IsSend(log[p]) => Len(Attempts(SubSeq(log, p, EndOfXfer(log, p)))) = 6

\* C14 as stated: in a successful init() a 5 ms delay follows each of the
\* first two 8-bit-mode nibble transfers, and between the third 8-bit-mode
\* nibble transfer and the 4-bit-mode nibble transfer the only delay is the
\* settle delay that ends the nibble transfer itself.
C14_NoDelayAfterThird ==
  (op.name = "init" /\ res = "ok") =>
    /\ \A n \in 1..2 :
         LET b == Between(log, n) IN b[Len(b)] = Ev("delay", 5000, 0)
    /\ Delays(Between(log, 3)) = Delays(write4bits(pre, mode_8bit))

\* C14, amended: in a successful init() a 5 ms delay follows each of the
\* three 8-bit-mode nibble transfers, after the settle delay that ends the
\* nibble transfer itself; the third one's comes before the first frame of
\* the 4-bit-mode nibble transfer.
C14_FiveMsAfterEachOfThree ==
  (op.name = "init" /\ res = "ok") =>
    /\ Len(SingleNibbles(log)) = 4
    /\ \A n \in 1..3 :
         LET b == Between(log, n) IN
         /\ b[1] = Ev("nib", 48, 0)
         /\ b[Len(b)] = Ev("delay", 5000, 0)
         /\ Len(AfterLastWrite(b)) = 2
         /\ IsDelay(b[Len(b) - 1])
         /\ b[Len(b) - 1].v = (IF lcd.variant = "legacy" THEN 5000 ELSE 700)
         /\ Delays(b) = Delays(write4bits(pre, mode_8bit)) \o <<Ev("delay", 5000, 0)>>
    /\ log[NthSingle(log, 4)] = Ev("nib", 32, 0)

C14_Witness ==
  /\ op.name = "init" /\ res = "ok" /\ lcd.variant = "async"
  /\ Len(SingleNibbles(log)) = 4
  /\ Delays(Between(log, 3)) = <<Ev("delay", 700, 0), Ev("delay", 5000, 0)>>

\* C15: every clear instruction (0x01) and every return-home instruction
\* (0x02) that the driver sends to the end, in clear(), return_home() or
\* init(), in any driver, is followed by delays of at least 2 ms in all
\* between its last bus write and the next bus write; no bus write of the
\* operation comes sooner, and the operation does not return sooner.
C15_TwoMsAfterClearAndHome ==
  \A p \in 1..Len(log) :
     (/\ IsSend(log[p]) /\ log[p].m = Mode_Cmd
      /\ log[p].v \in {Commands_Clear, Commands_ReturnHome}
      /\ Len(Strobes(SubSeq(log, p, EndOfXfer(log, p)))) = 2
      /\ \A i \in p..EndOfXfer(log, p) : log[i].t # "fail") =>
        DelayAfterXfer(log, p) >= 2000

C15_Witness ==
  /\ op.name = "init" /\ res = "ok" /\ lcd.variant = "legacy"
  /\ \E p \in 1..Len(log) :
        /\ log[p] = Ev("send", Commands_Clear, Mode_Cmd)
        /\ DelayAfterXfer(log, p) = 5000

\* the byte transfers of l that carry a display-control instruction (0000 1xxx)
IsDisplayControl(e) == IsSend(e) /\ e.m = Mode_Cmd /\ e.v \in 8..15
\* the byte transfers of l that carry a function-set instruction (001x xxxx)
IsFunctionSet(e) == IsSend(e) /\ e.m = Mode_Cmd /\ e.v \in 32..63

\* C16: the backlight state is on when the driver is made and changes only
\* in a backlight(b) call, which makes it b; and every bus frame of every
\* operation, the frame of backlight(b) included, carries the backlight state
\* in bit 3.  So before any backlight call bit 3 is set in every frame, and
\* after backlight(b) it is b in every frame until the next backlight call.
C16_FramesCarryBacklight ==
  /\ lcd.backlight_state = Backlight_On
  /\ [](\A i \in 1..Len(log) :
          IsAttempt(log[i]) => Bit(log[i].v, 3) * 8 = lcd.backlight_state)
  /\ [][lcd'.backlight_state # lcd.backlight_state =>
          (op'.name = "backlight" /\ lcd'.backlight_state = op'.a)]_vars

C16_Witness ==
  /\ op.name = "write_str" /\ res = "ok" /\ op.s = <<65>>
  /\ lcd.backlight_state = Backlight_Off
  /\ Len(Attempts(log)) >= 4
  /\ \A i \in 1..Len(log) : IsAttempt(log[i]) => Bit(log[i].v, 3) = 0

\* C17: every display-control byte on the bus is 0x08 | 0x04 | (0x02 if the
\* cursor-on flag is set) | (0x01 if the blink flag is set), the flags being
\* those the driver holds when the call returns; it is sent by init,
\* cursor_on and cursor_blink only, once in each call that does not fail.  The
\* flags change only in the builders, before init, and in cursor_on and
\* cursor_blink, and the driver becomes ready only by an init that did not
\* fail: so the most recent display-control byte is that of the flags held.
C17_DisplayControlByte ==
  /\ [](\A i \in 1..Len(log) :
          IsDisplayControl(log[i]) =>
             /\ log[i].v = 8 + 4 + 2 * B2N(lcd.cursor_on) + B2N(lcd.cursor_blink)
             /\ Bit(log[i].v, 2) = 1
             /\ op.name \in {"init", "cursor_on", "cursor_blink"})
  /\ []((op.name \in {"init", "cursor_on", "cursor_blink"} /\ res = "ok") =>
          Len(SelectSeq(log, IsDisplayControl)) = 1)
  /\ [][(lcd'.cursor_on # lcd.cursor_on \/ lcd'.cursor_blink # lcd.cursor_blink) =>
          (phase = "New" \/ op'.name \in {"cursor_on", "cursor_blink"})]_vars
  /\ [][(phase' = "Ready" /\ phase # "Ready") =>
          (op'.name = "init" /\ res' = "ok")]_vars

C17_Witness ==
  /\ op.name = "cursor_blink" /\ res = "ok" /\ op.a = 1
  /\ pre.cursor_on /\ ~pre.cursor_blink
  /\ SelectSeq(log, IsDisplayControl) = <<Ev("send", 15, Mode_Cmd)>>

\* C18 as stated: in every driver a successful init() sends one entry-mode-set
\* instruction (0000 01xx), and it is 0x06: the base code 0x04, the
\* increment bit 0x02 set, the shift-on-write bit 0x01 clear.
C18_EntryModeLeftToRight ==
  (op.name = "init" /\ res = "ok") =>
    LET es == {i \in 1..Len(log) :
                 IsSend(log[i]) /\ log[i].m = Mode_Cmd /\ log[i].v \in 4..7}
    IN /\ Cardinality(es) = 1
       /\ \A i \in es : Bit(log[i].v, 1) = 1 /\ Bit(log[i].v, 0) = 0

\* C19: when the bus write of backlight(b), or a bus write of cursor_on(b),
\* cursor_blink(b) or font_mode(f), fails, the call returns the error with
\* the failing write as the last thing it did, and the field holds the
\* requested value, every other field being as before.  The fields stay so
\* when the result is taken, and every operation encodes its frames and its
\* control bytes from the fields as they are: bit 3 of every frame, the
\* display-control byte and the function-set byte.
C19_NoRollback ==
  /\ []((op.name \in {"backlight", "cursor_on", "cursor_blink", "font_mode"}
          /\ op.failAt > 0) =>
           /\ res = "err"
           /\ log[Len(log)].t = "fail"
           /\ op.name = "backlight" => lcd = [pre EXCEPT !.backlight_state = op.a]
           /\ op.name = "cursor_on" => lcd = [pre EXCEPT !.cursor_on = (op.a = 1)]
           /\ op.name = "cursor_blink" => lcd = [pre EXCEPT !.cursor_blink = (op.a = 1)]
           /\ op.name = "font_mode" => lcd = [pre EXCEPT !.font_mode = op.a])
  /\ [][(phase = "Ready" /\ op'.name = "none") => lcd' = lcd]_vars
  /\ [][(phase = "Ready" /\ log = <<>> /\ op'.name # "none") =>
          /\ pre' = lcd
          /\ op'.name # "backlight" => lcd'.backlight_state = lcd.backlight_state
          /\ op'.name # "cursor_on" => lcd'.cursor_on = lcd.cursor_on
          /\ op'.name # "cursor_blink" => lcd'.cursor_blink = lcd.cursor_blink
          /\ op'.name # "font_mode" => lcd'.font_mode = lcd.font_mode]_vars
  /\ [](\A i \in 1..Len(log) :
          /\ IsAttempt(log[i]) => Bit(log[i].v, 3) * 8 = lcd.backlight_state
          /\ IsDisplayControl(log[i]) =>
               /\ Bit(log[i].v, 1) = B2N(lcd.cursor_on)
               /\ Bit(log[i].v, 0) = B2N(lcd.cursor_blink)
          /\ (IsFunctionSet(log[i]) /\ lcd.variant # "legacy") =>
               Bit(log[i].v, 2) * 4 = lcd.font_mode)

C19_Witness ==
  /\ op.name = "font_mode" /\ res = "err" /\ op.failAt = 2
  /\ op.a = Font_Font5x10 /\ pre.font_mode = Font_Font5x8
  /\ lcd.font_mode = Font_Font5x10
  /\ log[Len(log)].t = "fail"

\* the bus frames of one nibble transfer
FramesPerNibble == IF lcd.variant = "legacy" THEN 2 ELSE 3

\* C20: in every operation made after init, when the failAt-th bus write of
\* the call fails the call returns the error: the trace of the call is that
\* of the call without failure up to that write, the failed frame is its
\* last event and occurs once, no frame is written after it.  So the nibble
\* transfer of the failed frame is the last one started (no low nibble after
\* a failed high nibble) and its byte transfer is the last one started (no
\* later character of a write_str).
C20_FirstFailureEndsOperation ==
  (op.name \notin {"none", "init"} /\ op.failAt > 0) =>
    LET full == Run(pre, op).script
        n == Len(log)
    IN /\ res = "err"
       /\ log[n].t = "fail"
       /\ \A i \in 1..(n - 1) : log[i].t # "fail"
       /\ Len(Attempts(log)) = op.failAt
       /\ n <= Len(full)
       /\ SubSeq(log, 1, n - 1) = SubSeq(full, 1, n - 1)
       /\ log[n] = [full[n] EXCEPT !.t = "fail"]
       /\ op.name # "backlight" =>
            /\ (Len(Nibbles(log)) - 1) * FramesPerNibble < op.failAt
            /\ op.failAt <= Len(Nibbles(log)) * FramesPerNibble
            /\ (Len(Sends(log)) - 1) * 2 * FramesPerNibble < op.failAt
            /\ op.failAt <= Len(Sends(log)) * 2 * FramesPerNibble

C20_Witness ==
  /\ op.name = "write_str" /\ res = "err" /\ Len(op.s) = 2
  /\ lcd.variant = "sync" /\ op.failAt = 2
  /\ Len(Nibbles(log)) = 1 /\ Len(Sends(log)) = 1
  /\ log[Len(log)].t = "fail"

\* the operations that only move the cursor or the view
ScrollNames ==
  {"scroll_display_left", "scroll_display_right",
   "scroll_cursor_left", "scroll_cursor_right"}

\* the command code of each of them
ScrollCode ==
  [n \in ScrollNames |->
     CASE n = "scroll_display_left" -> Commands_ShiftDisplayLeft
       [] n = "scroll_display_right" -> Commands_ShiftDisplayRight
       [] n = "scroll_cursor_left" -> Commands_ShiftCursorLeft
       [] n = "scroll_cursor_right" -> Commands_ShiftCursorRight]

\* C21: the four scroll operations, clear, return_home, set_cursor and
\* write_str leave every field of the driver (backlight, cursor-on, blink,
\* font, row count, bus address) as it was before the call, whether the call
\* succeeds, fails on the bus or, for set_cursor, overflows.  Each scroll
\* operation starts exactly one byte transfer, a command carrying the code of
\* that operation whatever the state of the driver, and nothing else; when
\* the bus does not fail the two latched nibbles are that code.  The four
\* codes are pairwise distinct.
C21_FrameEffect ==
  /\ (op.name \in ScrollNames \cup {"clear", "return_home", "set_cursor", "write_str"}) =>
        /\ lcd = pre
        /\ \A f \in {"backlight_state", "cursor_on", "cursor_blink", "font_mode",
                      "rows", "address", "variant"} : lcd[f] = pre[f]
  /\ (op.name \in ScrollNames) =>
        /\ Xfers(log) = <<Ev("send", ScrollCode[op.name], Mode_Cmd)>>
        /\ log[1] = Ev("send", ScrollCode[op.name], Mode_Cmd)
        /\ ScrollCode[op.name] \in 16..31
        /\ res = "ok" =>
             /\ Len(Strobes(log)) = 2
             /\ DataNibble(Strobes(log)[1]) * 16 + DataNibble(Strobes(log)[2])
                  = ScrollCode[op.name]
             /\ \A i \in 1..2 : Bit(Strobes(log)[i].v, 0) = 0
             /\ Len(Attempts(log)) = 2 * FramesPerNibble
             /\ Delays(log) = <<Ev("delay", 700, 0), Ev("delay", 700, 0)>>
  /\ \A m, n \in ScrollNames : m # n => ScrollCode[m] # ScrollCode[n]
  /\ \A n \in ScrollNames :
        (op.name \in ScrollNames /\ op.name # n) => Sends(log)[1].v # ScrollCode[n]

C21_Witness ==
  /\ op.name = "scroll_cursor_right" /\ res = "ok"
  /\ lcd.backlight_state = Backlight_Off /\ lcd.cursor_blink /\ lcd.rows = 4
  /\ lcd = pre
  /\ Sends(log) = <<Ev("send", 20, Mode_Cmd)>>

====
